---------------------------- MODULE Spec2Model ----------------------------
(***************************************************************************)
(* Model of git_versions.py: main() and print_versions().                  *)
(*                                                                         *)
(* Text is modelled as sequences of one-character strings, so that         *)
(* str.lstrip, str.split, os.path.basename, the '%' formatting and the     *)
(* three parsers the program relies on (semantic_version.Version in        *)
(* partial mode, semantic_version.Spec and distutils StrictVersion) are    *)
(* computed character by character.  The two libraries are modelled as    *)
(* the releases the program was written for behave: semantic_version 2.x   *)
(* (Spec, partial versions whose missing components compare equal to       *)
(* anything) and distutils.version.StrictVersion.                          *)
(*                                                                         *)
(* The environment: the command line, the repo-list file (readable or      *)
(* not), and for every command its exit status and, for `git tag -l`, the  *)
(* tag names it prints (distinct names, in the order git lists them).      *)
(* The help flags (-h, --help), which end main() before print_versions     *)
(* is called, are not part of the model.                                   *)
(***************************************************************************)
EXTENDS Integers, Sequences, FiniteSets, TLC

(***************************************************************************)
(* Bounds of the model.                                                    *)
(***************************************************************************)
MaxLines == 2      \* lines of the repo-list file (before the final newline)
MaxTags == 2       \* lines of the output of one `git tag -l`

(***************************************************************************)
(* Characters and literals.                                                *)
(***************************************************************************)
NL == "\n"
DigitChars == <<"0", "1", "2", "3", "4", "5", "6", "7", "8", "9">>
Digits == {DigitChars[k] : k \in 1..10}
Lower == {"a", "b", "c", "d", "e", "f", "g", "h", "i", "j", "k", "l", "m",
          "n", "o", "p", "q", "r", "s", "t", "u", "v", "w", "x", "y", "z"}
Upper == {"A", "B", "C", "D", "E", "F", "G", "H", "I", "J", "K", "L", "M",
          "N", "O", "P", "Q", "R", "S", "T", "U", "V", "W", "X", "Y", "Z"}
IdentChars == Digits \cup Lower \cup Upper \cup {".", "-"}

PROG == <<"g", "i", "t", "_", "v", "e", "r", "s", "i", "o", "n", "s", ".", "p", "y">>
NOFETCH == <<"-", "-", "n", "o", "f", "e", "t", "c", "h">>
CdPrefix == <<"(", "c", "d", " ">>
FetchSuffix == <<";", " ", "g", "i", "t", " ", "f", "e", "t", "c", "h", ";", ")">>
TagsSuffix == <<";", " ", "g", "i", "t", " ", "t", "a", "g", " ", "-", "l", ")">>
NoMatchText == <<"n", "o", " ", "m", "a", "t", "c", "h">>
ColonSpace == <<":", " ">>
CommaSpace == <<",", " ">>
InvalidPrefix == <<"I", "n", "v", "a", "l", "i", "d", " ", "v", "e", "r", "s",
                   "i", "o", "n", " ", "i", "n", " ", "r", "e", "p", "o", " ">>

(***************************************************************************)
(* The inputs the model draws from: raw tag names, repo-list lines and     *)
(* command-line specifications.                                            *)
(***************************************************************************)
Tag_nope == <<"n", "o", "p", "e">>
Tag_v100 == <<"v", "1", ".", "0", ".", "0">>
Tag_vv150 == <<"v", "v", "1", ".", "5", ".", "0">>
Tag_200 == <<"2", ".", "0", ".", "0">>
Tag_1000 == <<"1", "0", ".", "0", ".", "0">>
Tag_1 == <<"1">>
Tag_12 == <<"1", ".", "2">>
Tag_rc == <<"1", ".", "0", ".", "0", "-", "r", "c", "1">>
\* the tag names a repository may hold, in the order `git tag -l` lists them
\* (by name, byte-wise)
TagPool == <<Tag_1, Tag_rc, Tag_12, Tag_1000, Tag_200, Tag_nope, Tag_v100,
             Tag_vv150>>

Line_blank == <<>>
Line_comment == <<"#", "c">>
Line_rA == <<"a", "/", "r", "A">>
Line_rB == <<"r", "B">>
LinePool == {Line_blank, Line_comment, Line_rA, Line_rB}

Spec_lt2 == <<"v", "<", "2", ".", "0", ".", "0">>
Spec_bad == <<"b", "a", "d">>
Spec_v == <<"v">>
SpecPool == {Spec_lt2, Spec_bad, Spec_v}

(***************************************************************************)
(* Generic text helpers.                                                   *)
(***************************************************************************)
Tail_from(s, k) == SubSeq(s, k, Len(s))

RECURSIVE Concat(_)
Concat(ss) == IF ss = <<>> THEN <<>> ELSE Head(ss) \o Concat(Tail(ss))

\* sep.join(parts)
RECURSIVE Join(_, _)
Join(parts, sep) ==
    IF parts = <<>> THEN <<>>
    ELSE IF Len(parts) = 1 THEN parts[1]
    ELSE parts[1] \o sep \o Join(Tail(parts), sep)

\* s.split(c) for a one-character separator: always at least one piece
RECURSIVE SplitFrom(_, _, _)
SplitFrom(s, c, cur) ==
    IF s = <<>> THEN <<cur>>
    ELSE IF Head(s) = c THEN <<cur>> \o SplitFrom(Tail(s), c, <<>>)
    ELSE SplitFrom(Tail(s), c, Append(cur, Head(s)))

Split(s, c) == SplitFrom(s, c, <<>>)

\* all sequences over S of length at most n
SeqsUpTo(S, n) == UNION {[1..k -> S] : k \in 0..n}

\* index just after the longest run of digits that starts at position k
RECURSIVE DigitsEnd(_, _)
DigitsEnd(s, k) ==
    IF k <= Len(s) /\ s[k] \in Digits THEN DigitsEnd(s, k + 1) ELSE k

DigitVal(c) == (CHOOSE k \in 1..10 : DigitChars[k] = c) - 1

\* int(s) for a non-empty sequence of digits
RECURSIVE IntOf(_)
IntOf(s) ==
    IF s = <<>> THEN 0
    ELSE 10 * IntOf(SubSeq(s, 1, Len(s) - 1)) + DigitVal(s[Len(s)])

AllIn(s, S) == \A k \in 1..Len(s) : s[k] \in S

\* position of the first occurrence of c in s, Len(s) + 1 when absent
RECURSIVE FindFrom(_, _, _)
FindFrom(s, c, k) ==
    IF k > Len(s) THEN k
    ELSE IF s[k] = c THEN k ELSE FindFrom(s, c, k + 1)

(***************************************************************************)
(* str.lstrip('v'): removes every leading 'v', not only the first one.     *)
(***************************************************************************)
RECURSIVE lstrip_v(_)
lstrip_v(s) ==
    IF s # <<>> /\ Head(s) = "v" THEN lstrip_v(Tail(s)) ELSE s

(***************************************************************************)
(* os.path.basename: what follows the last '/'.                            *)
(***************************************************************************)
RECURSIVE basename(_)
basename(p) ==
    LET k == FindFrom(p, "/", 1)
    IN  IF k > Len(p) THEN p ELSE basename(Tail_from(p, k + 1))

(***************************************************************************)
(* semantic_version.Version(s, partial=True): digits, optionally followed  *)
(* by '.' digits, optionally followed by '.' digits; then an optional '-'  *)
(* and prerelease text, then an optional '+' and build text, both over     *)
(* [0-9a-zA-Z.-]; no leading zero in major/minor/patch, and non-empty      *)
(* identifiers (without leading zeros when numeric, in the prerelease).    *)
(* A missing minor or patch is None, written -1 here.                      *)
(***************************************************************************)
NoVersion == [ok |-> FALSE, major |-> 0, minor |-> -1, patch |-> -1,
              build |-> FALSE]

HasLeadingZero(d) == Len(d) > 1 /\ d[1] = "0"

ValidIdentifiers(text, allowLeadingZeroes) ==
    LET ids == Split(text, ".")
    IN  \A k \in 1..Len(ids) :
            /\ ids[k] # <<>>
            /\ allowLeadingZeroes \/ ~(AllIn(ids[k], Digits) /\ HasLeadingZero(ids[k]))

\* the part after the numeric core: "", "-pre", "+build" or "-pre+build"
SuffixOk(rest) ==
    LET plus == FindFrom(rest, "+", 1)
        hasPre == rest # <<>> /\ rest[1] = "-"
        pre == IF hasPre THEN SubSeq(rest, 2, plus - 1) ELSE <<>>
        hasBuild == plus <= Len(rest)
        bld == IF hasBuild THEN Tail_from(rest, plus + 1) ELSE <<>>
    IN  /\ rest = <<>> \/ hasPre \/ plus = 1
        /\ AllIn(pre, IdentChars)
        /\ AllIn(bld, IdentChars)
        /\ pre = <<>> \/ ValidIdentifiers(pre, FALSE)
        /\ bld = <<>> \/ ValidIdentifiers(bld, TRUE)

PartialVersion(s) ==
    LET p1 == DigitsEnd(s, 1)
        hasMinor == p1 <= Len(s) /\ s[p1] = "." /\ DigitsEnd(s, p1 + 1) > p1 + 1
        p2 == IF hasMinor THEN DigitsEnd(s, p1 + 1) ELSE p1
        hasPatch == hasMinor /\ p2 <= Len(s) /\ s[p2] = "."
                       /\ DigitsEnd(s, p2 + 1) > p2 + 1
        p3 == IF hasPatch THEN DigitsEnd(s, p2 + 1) ELSE p2
        majorText == SubSeq(s, 1, p1 - 1)
        minorText == IF hasMinor THEN SubSeq(s, p1 + 1, p2 - 1) ELSE <<>>
        patchText == IF hasPatch THEN SubSeq(s, p2 + 1, p3 - 1) ELSE <<>>
        rest == Tail_from(s, p3)
    IN  IF /\ p1 > 1
           /\ SuffixOk(rest)
           /\ ~HasLeadingZero(majorText)
           /\ ~HasLeadingZero(minorText)
           /\ ~HasLeadingZero(patchText)
        THEN [ok |-> TRUE,
              major |-> IntOf(majorText),
              minor |-> IF hasMinor THEN IntOf(minorText) ELSE -1,
              patch |-> IF hasPatch THEN IntOf(patchText) ELSE -1,
              build |-> FindFrom(rest, "+", 1) <= Len(rest)]
        ELSE NoVersion

\* comparison of versions of which one is partial: None compares equal to
\* anything; the specifications used here carry no prerelease and no build,
\* so that those two fields compare equal as well
Cmp(a, b) == IF a < b THEN -1 ELSE IF a > b THEN 1 ELSE 0

CmpOptional(a, b) == IF a = -1 \/ b = -1 THEN 0 ELSE Cmp(a, b)

PartialCompare(v, w) ==
    IF Cmp(v.major, w.major) # 0 THEN Cmp(v.major, w.major)
    ELSE IF CmpOptional(v.minor, w.minor) # 0 THEN CmpOptional(v.minor, w.minor)
    ELSE CmpOptional(v.patch, w.patch)

(***************************************************************************)
(* semantic_version.Spec(text): comma-separated requirements, each an      *)
(* operator among < <= = == >= > != (or none, meaning ==) followed by a    *)
(* text that starts with a digit and parses as a version in partial mode.  *)
(* (The caret and tilde operators of the library are not modelled; no      *)
(* specification drawn by the model uses them.)                            *)
(***************************************************************************)
OP_LT == <<"<">>
OP_LE == <<"<", "=">>
OP_EQ == <<"=", "=">>
OP_EQ1 == <<"=">>
OP_GE == <<">", "=">>
OP_GT == <<">">>
OP_NE == <<"!", "=">>
SpecOps == {<<>>, OP_LT, OP_LE, OP_EQ, OP_EQ1, OP_GE, OP_GT, OP_NE}

RECURSIVE FirstDigit(_, _)
FirstDigit(s, k) ==
    IF k > Len(s) THEN k
    ELSE IF s[k] \in Digits THEN k ELSE FirstDigit(s, k + 1)

SpecItem(text) ==
    LET d == FirstDigit(text, 1)
        kind == SubSeq(text, 1, d - 1)
        v == PartialVersion(Tail_from(text, d))
    IN  [ok |-> /\ d <= Len(text)
                /\ kind \in SpecOps
                /\ v.ok
                /\ ~v.build \/ kind \in {<<>>, OP_EQ, OP_EQ1, OP_NE},
         kind |-> kind,
         spec |-> v]

SpecItems(text) == LET parts == Split(text, ",")
                   IN  [k \in 1..Len(parts) |-> SpecItem(parts[k])]

\* semantic_version.Spec(text) raises ValueError
SpecMalformed(text) ==
    \E k \in 1..Len(SpecItems(text)) : ~SpecItems(text)[k].ok

SpecItemMatch(item, v) ==
    LET c == PartialCompare(v, item.spec)
    IN  CASE item.kind = OP_LT -> c < 0
          [] item.kind = OP_LE -> c <= 0
          [] item.kind = OP_GE -> c >= 0
          [] item.kind = OP_GT -> c > 0
          [] item.kind = OP_NE -> c # 0
          [] OTHER -> c = 0

\* semantic_version.Spec(text).match(v), for a well-formed text
SpecMatch(text, v) ==
    \A k \in 1..Len(SpecItems(text)) : SpecItemMatch(SpecItems(text)[k], v)

(***************************************************************************)
(* distutils.version.StrictVersion(s): digits '.' digits, an optional      *)
(* '.' digits, an optional 'a' or 'b' followed by digits, and nothing else.*)
(* Two or three numeric components (a missing third one is 0) and an       *)
(* optional a<N> / b<N> prerelease.                                        *)
(***************************************************************************)
StrictVersion(s) ==
    LET p1 == DigitsEnd(s, 1)
        hasMinor == p1 > 1 /\ p1 <= Len(s) /\ s[p1] = "."
                       /\ DigitsEnd(s, p1 + 1) > p1 + 1
        p2 == IF hasMinor THEN DigitsEnd(s, p1 + 1) ELSE p1
        hasPatch == hasMinor /\ p2 <= Len(s) /\ s[p2] = "."
                       /\ DigitsEnd(s, p2 + 1) > p2 + 1
        p3 == IF hasPatch THEN DigitsEnd(s, p2 + 1) ELSE p2
        hasPre == hasMinor /\ p3 <= Len(s) /\ s[p3] \in {"a", "b"}
                     /\ DigitsEnd(s, p3 + 1) > p3 + 1
        p4 == IF hasPre THEN DigitsEnd(s, p3 + 1) ELSE p3
    IN  IF hasMinor /\ p4 = Len(s) + 1
        THEN [ok |-> TRUE,
              version |-> <<IntOf(SubSeq(s, 1, p1 - 1)),
                            IntOf(SubSeq(s, p1 + 1, p2 - 1)),
                            IF hasPatch THEN IntOf(SubSeq(s, p2 + 1, p3 - 1)) ELSE 0>>,
              pre |-> IF hasPre THEN <<IF s[p3] = "a" THEN 1 ELSE 2,
                                       IntOf(SubSeq(s, p3 + 1, p4 - 1))>>
                      ELSE <<>>]
        ELSE [ok |-> FALSE, version |-> <<0, 0, 0>>, pre |-> <<>>]

\* lexicographic comparison of two tuples of integers of the same length
RECURSIVE CmpTuple(_, _)
CmpTuple(a, b) ==
    IF a = <<>> THEN 0
    ELSE IF Cmp(Head(a), Head(b)) # 0 THEN Cmp(Head(a), Head(b))
    ELSE CmpTuple(Tail(a), Tail(b))

\* StrictVersion._cmp: numeric on the components; on equal components a
\* version without prerelease is greater than one with a prerelease
StrictCmp(x, y) ==
    IF CmpTuple(x.version, y.version) # 0 THEN CmpTuple(x.version, y.version)
    ELSE IF x.pre = <<>> /\ y.pre = <<>> THEN 0
    ELSE IF x.pre = <<>> THEN 1
    ELSE IF y.pre = <<>> THEN -1
    ELSE CmpTuple(x.pre, y.pre)

(***************************************************************************)
(* The program state.                                                      *)
(*   argv          sys.argv                                                *)
(*   fileReadable  whether ~/.git-status can be opened and decoded         *)
(*   fileText      its content                                             *)
(*   spec, fetch   the arguments of print_versions                         *)
(*   repos, i      the lines of the file and the position of the for loop  *)
(*   tags          the lines of the last `git tag -l` output               *)
(*   versions      the retained (stripped) tags of the last repository     *)
(*   events        what the process did, in order: lines written to        *)
(*                 standard output ("out") and shell commands spawned      *)
(*                 ("cmd", with the exit status of the command)            *)
(*   error         the exception that ended the run, "" when there is none *)
(*   exitStatus    the exit status of the process once pc is "done" or     *)
(*                 "aborted"                                               *)
(***************************************************************************)
VARIABLES argv, fileReadable, fileText, spec, fetch, repos, i, pc, tags,
          versions, events, error, exitStatus

vars == <<argv, fileReadable, fileText, spec, fetch, repos, i, pc, tags,
          versions, events, error, exitStatus>>

\* Python's None; '' and None are the two falsy values a text variable takes
None == <<"None">>
Truthy(x) == x # None /\ x # <<>>

ArgvPool ==
    {<<PROG>>, <<PROG, NOFETCH>>}
    \cup {<<PROG, s>> : s \in SpecPool}
    \cup {<<PROG, NOFETCH, s>> : s \in SpecPool}

IsBlank(line) == line = <<>>
IsComment(line) == line # <<>> /\ line[1] = "#"
IsRepoPath(line) == ~IsBlank(line) /\ ~IsComment(line)

\* the repo-list files: blank lines and comments in any number, each
\* repository listed once
RepoLists ==
    {ls \in SeqsUpTo(LinePool, MaxLines) :
        \A j, k \in 1..Len(ls) : IsRepoPath(ls[j]) /\ ls[j] = ls[k] => j = k}

FileTexts == {Join(ls, <<NL>>) : ls \in RepoLists}

\* the elements of pool at the positions in S, in the order of pool
RECURSIVE Pick(_, _)
Pick(pool, S) ==
    IF S = {} THEN <<>>
    ELSE LET m == CHOOSE x \in S : \A y \in S : x <= y
         IN  <<pool[m]>> \o Pick(pool, S \ {m})

\* the tag names of a repository: distinct, listed in order
TagLists == {Pick(TagPool, S) :
                S \in {T \in SUBSET (1..Len(TagPool)) : Cardinality(T) <= MaxTags}}

\* the output of `git tag -l`: one line per tag
TagOutputs == {Concat([k \in 1..Len(tl) |-> Append(tl[k], NL)]) : tl \in TagLists}

Out(text) == [type |-> "out", text |-> text, status |-> 0]
Cmd(text, status) == [type |-> "cmd", text |-> text, status |-> status]

\* the non-zero exit statuses git ends with
FailureStatuses == {1, 128}

\* an uncaught exception ends the interpreter with status 1
UncaughtStatus == 1

fetch_command(repo) == CdPrefix \o repo \o FetchSuffix
tags_command(repo) == CdPrefix \o repo \o TagsSuffix

\* sys.exit(n): the status the parent process sees
ExitCode(n) == n % 256

(***************************************************************************)
(* main(): the fetch flag and the first argument that is not a flag.       *)
(***************************************************************************)
\* variant: --nofetch is not looked at
FetchFlagAlways(av) == TRUE

FetchFlag(av) == \A k \in 1..Len(av) : av[k] # NOFETCH

SpecArg(av) ==
    LET args == SelectSeq(Tail(av), LAMBDA a : a[1] # "-")
    IN  IF args # <<>> THEN args[1] ELSE None

(***************************************************************************)
(* print_versions(): the normalisation of spec.                            *)
(***************************************************************************)
NormalizeSpec(sp) == IF Truthy(sp) THEN lstrip_v(sp) ELSE sp

(***************************************************************************)
(* print_versions(): the loop over the tags of one repository.             *)
(* The result is the retained list, or err when semantic_version.Spec      *)
(* raised ValueError, which happens at the first tag that parses.          *)
(***************************************************************************)
StripTag(tag) == lstrip_v(tag)

RECURSIVE FilterFrom(_, _, _)
FilterFrom(ts, sp, acc) ==
    IF ts = <<>> THEN [err |-> FALSE, versions |-> acc]
    ELSE LET tag == StripTag(Head(ts))
         IN  IF tag = <<>> THEN FilterFrom(Tail(ts), sp, acc)
             ELSE IF ~PartialVersion(tag).ok THEN FilterFrom(Tail(ts), sp, acc)
             ELSE IF Truthy(sp) /\ SpecMalformed(sp)
                  THEN [err |-> TRUE, versions |-> acc]
             ELSE IF Truthy(sp) /\ ~SpecMatch(sp, PartialVersion(tag))
                  THEN FilterFrom(Tail(ts), sp, acc)
             ELSE FilterFrom(Tail(ts), sp, Append(acc, tag))

\* variant: the specification is not applied
FilterTagsIgnoringSpec(ts, sp) == FilterFrom(ts, None, <<>>)

\* variant: the specification is parsed before the first tag is looked at
FilterTagsSpecFirst(ts, sp) ==
    IF Truthy(sp) /\ SpecMalformed(sp) THEN [err |-> TRUE, versions |-> <<>>]
    ELSE FilterFrom(ts, sp, <<>>)

FilterTags(ts, sp) == FilterFrom(ts, sp, <<>>)

(***************************************************************************)
(* versions.sort(key=StrictVersion): the keys of all elements are computed *)
(* first (ValueError leaves the list as it was), the sort is stable.       *)
(***************************************************************************)
\* variant: a list of one element is not handed to the key function
SortFailsFromTwo(vs) ==
    Len(vs) >= 2 /\ \E k \in 1..Len(vs) : ~StrictVersion(vs[k]).ok

SortFails(vs) == \E k \in 1..Len(vs) : ~StrictVersion(vs[k]).ok

SortKeyCmp(a, b) == StrictCmp(StrictVersion(a), StrictVersion(b))

RECURSIVE InsertSorted(_, _)
InsertSorted(sorted, x) ==
    IF sorted = <<>> THEN <<x>>
    ELSE IF SortKeyCmp(sorted[Len(sorted)], x) <= 0 THEN Append(sorted, x)
    ELSE Append(InsertSorted(SubSeq(sorted, 1, Len(sorted) - 1), x),
                sorted[Len(sorted)])

\* variant: the list is left in the order of the tag listing
UnsortedVersions(vs) == vs

RECURSIVE SortVersions(_)
SortVersions(vs) ==
    IF vs = <<>> THEN <<>>
    ELSE InsertSorted(SortVersions(SubSeq(vs, 1, Len(vs) - 1)), vs[Len(vs)])

\* version = versions[-1] if versions else None
Latest(sorted) == IF sorted # <<>> THEN sorted[Len(sorted)] ELSE None

\* '%s: %s' % (os.path.basename(repo), version if version else 'no match')
\* variant: the path is printed instead of its basename
ResultLineFullPath(repo, version) ==
    repo \o ColonSpace \o (IF Truthy(version) THEN version ELSE NoMatchText)

\* variant: the version is printed as it is, None included
ResultLineRaw(repo, version) == basename(repo) \o ColonSpace \o version

ResultLine(repo, version) ==
    basename(repo) \o ColonSpace \o (IF Truthy(version) THEN version ELSE NoMatchText)

\* repr of a list of str
ListRepr(vs) ==
    <<"[">> \o Join([k \in 1..Len(vs) |-> <<"'">> \o vs[k] \o <<"'">>], CommaSpace)
            \o <<"]">>

\* 'Invalid version in repo %s: %s' % (repo, versions)
InvalidLine(repo, vs) == InvalidPrefix \o repo \o ColonSpace \o ListRepr(vs)

(***************************************************************************)
(* Initial states: the command line and the repo-list file are inputs.     *)
(***************************************************************************)
Init ==
    /\ argv \in ArgvPool
    /\ fileReadable \in BOOLEAN
    /\ fileText \in FileTexts
    /\ ~fileReadable => fileText = <<>>
    /\ spec = None
    /\ fetch = TRUE
    /\ repos = <<>>
    /\ i = 1
    /\ pc = "main"
    /\ tags = <<>>
    /\ versions = <<>>
    /\ events = <<>>
    /\ error = ""
    /\ exitStatus = 0

\* main() calls print_versions(spec, fetch)
Main ==
    /\ pc = "main"
    /\ fetch' = FetchFlag(argv)
    /\ spec' = SpecArg(argv)
    /\ pc' = "open"
    /\ UNCHANGED <<error, argv, fileReadable, fileText, repos, i, tags, versions,
                   events, exitStatus>>

\* spec is normalised and the repo list is read
OpenFile ==
    /\ pc = "open"
    /\ fileReadable
    /\ spec' = NormalizeSpec(spec)
    /\ repos' = Split(fileText, NL)
    /\ i' = 1
    /\ pc' = "loop"
    /\ UNCHANGED <<error, argv, fileReadable, fileText, fetch, tags, versions,
                   events, exitStatus>>

\* variant: an unreadable file is taken as an empty one
OpenFileFailsAsEmpty ==
    /\ pc = "open"
    /\ ~fileReadable
    /\ spec' = NormalizeSpec(spec)
    /\ repos' = <<>>
    /\ pc' = "loop"
    /\ UNCHANGED <<error, argv, fileReadable, fileText, fetch, i, tags,
                   versions, events, exitStatus>>

\* open() or decode() raises: the exception is not caught
OpenFileFails ==
    /\ pc = "open"
    /\ ~fileReadable
    /\ spec' = NormalizeSpec(spec)
    /\ pc' = "aborted"
    /\ error' = "OSError"
    /\ exitStatus' = UncaughtStatus
    /\ UNCHANGED <<argv, fileReadable, fileText, fetch, repos, i, tags,
                   versions, events>>

AtLine == pc = "loop" /\ i <= Len(repos)
SkipBlank ==
    /\ AtLine
    /\ IsBlank(repos[i])
    /\ i' = i + 1
    /\ UNCHANGED <<error, argv, fileReadable, fileText, spec, fetch, repos, pc, tags,
                   versions, events, exitStatus>>

PrintComment ==
    /\ AtLine
    /\ IsComment(repos[i])
    /\ events' = Append(events, Out(<<>>))
    /\ i' = i + 1
    /\ UNCHANGED <<error, argv, fileReadable, fileText, spec, fetch, repos, pc, tags,
                   versions, exitStatus>>

\* subprocess.check_call(fetch_command % repo) returns
Fetch ==
    /\ AtLine
    /\ IsRepoPath(repos[i])
    /\ fetch
    /\ events' = Append(events, Cmd(fetch_command(repos[i]), 0))
    /\ pc' = "fetched"
    /\ UNCHANGED <<error, argv, fileReadable, fileText, spec, fetch, repos, i, tags,
                   versions, exitStatus>>

\* subprocess.check_call raises CalledProcessError
FetchFails ==
    /\ AtLine
    /\ IsRepoPath(repos[i])
    /\ fetch
    /\ \E st \in FailureStatuses :
           events' = Append(events, Cmd(fetch_command(repos[i]), st))
    /\ pc' = "aborted"
    /\ error' = "CalledProcessError"
    /\ exitStatus' = UncaughtStatus
    /\ UNCHANGED <<argv, fileReadable, fileText, spec, fetch, repos, i, tags,
                   versions>>

AtTags == \/ pc = "fetched"
          \/ AtLine /\ IsRepoPath(repos[i]) /\ ~fetch

\* subprocess.check_output(tags_command % repo) returns the tag names
ListTags ==
    /\ AtTags
    /\ \E output \in TagOutputs : tags' = Split(output, NL)
    /\ events' = Append(events, Cmd(tags_command(repos[i]), 0))
    /\ pc' = "filter"
    /\ UNCHANGED <<error, argv, fileReadable, fileText, spec, fetch, repos, i,
                   versions, exitStatus>>

\* variant: the exit status of the tag listing is not looked at
ListTagsFailsIgnored ==
    /\ AtTags
    /\ tags' = <<<<>>>>
    /\ \E st \in FailureStatuses :
           events' = Append(events, Cmd(tags_command(repos[i]), st))
    /\ pc' = "filter"
    /\ UNCHANGED <<error, argv, fileReadable, fileText, spec, fetch, repos, i,
                   versions, exitStatus>>

\* subprocess.check_output raises CalledProcessError
ListTagsFails ==
    /\ AtTags
    /\ \E st \in FailureStatuses :
           events' = Append(events, Cmd(tags_command(repos[i]), st))
    /\ pc' = "aborted"
    /\ error' = "CalledProcessError"
    /\ exitStatus' = UncaughtStatus
    /\ UNCHANGED <<argv, fileReadable, fileText, spec, fetch, repos, i, tags,
                   versions>>

\* semantic_version.Spec(spec) raises ValueError inside the tag loop
SpecError ==
    /\ pc = "filter"
    /\ FilterTags(tags, spec).err
    /\ versions' = FilterTags(tags, spec).versions
    /\ pc' = "aborted"
    /\ error' = "ValueError"
    /\ exitStatus' = UncaughtStatus
    /\ UNCHANGED <<argv, fileReadable, fileText, spec, fetch, repos, i, tags,
                   events>>

\* versions.sort raises ValueError: diagnostic and exit(-1)
InvalidVersion ==
    /\ pc = "filter"
    /\ ~FilterTags(tags, spec).err
    /\ SortFails(FilterTags(tags, spec).versions)
    /\ versions' = FilterTags(tags, spec).versions
    /\ events' = Append(events, Out(InvalidLine(repos[i], versions')))
    /\ pc' = "aborted"
    /\ error' = "SystemExit"
    /\ exitStatus' = ExitCode(-1)
    /\ UNCHANGED <<argv, fileReadable, fileText, spec, fetch, repos, i, tags>>

\* the tags are filtered and sorted and the result line is printed
PrintResult ==
    /\ pc = "filter"
    /\ ~FilterTags(tags, spec).err
    /\ ~SortFails(FilterTags(tags, spec).versions)
    /\ versions' = SortVersions(FilterTags(tags, spec).versions)
    /\ events' = Append(events, Out(ResultLine(repos[i], Latest(versions'))))
    /\ pc' = "printed"
    /\ UNCHANGED <<error, argv, fileReadable, fileText, spec, fetch, repos, i, tags,
                   exitStatus>>

\* the loop body ends: the for loop moves to the next line; tags and versions
\* are reassigned before they are read again, the model forgets them here
NextRepo ==
    /\ pc = "printed"
    /\ i' = i + 1
    /\ pc' = "loop"
    /\ tags' = <<>>
    /\ versions' = <<>>
    /\ UNCHANGED <<error, argv, fileReadable, fileText, spec, fetch, repos, events,
                   exitStatus>>

\* the for loop is exhausted: print_versions and main return
Finish ==
    /\ pc = "loop"
    /\ i > Len(repos)
    /\ pc' = "done"
    /\ UNCHANGED <<error, argv, fileReadable, fileText, spec, fetch, repos, i, tags,
                   versions, events, exitStatus>>

Next ==
    \/ Main
    \/ OpenFile
    \/ OpenFileFails
    \/ SkipBlank
    \/ PrintComment
    \/ Fetch
    \/ FetchFails
    \/ ListTags
    \/ ListTagsFails
    \/ SpecError
    \/ InvalidVersion
    \/ PrintResult
    \/ NextRepo
    \/ Finish

Spec == Init /\ [][Next]_vars

(***************************************************************************)
(* Observations on a state.                                                *)
(***************************************************************************)
Stdout == [k \in 1..Len(SelectSeq(events, LAMBDA e : e.type = "out")) |->
              SelectSeq(events, LAMBDA e : e.type = "out")[k].text]

Spawned == [k \in 1..Len(SelectSeq(events, LAMBDA e : e.type = "cmd")) |->
               SelectSeq(events, LAMBDA e : e.type = "cmd")[k].text]

TypeOK ==
    /\ pc \in {"main", "open", "loop", "fetched", "filter", "printed", "done",
              "aborted"}
    /\ error \in {"", "OSError", "CalledProcessError", "ValueError", "SystemExit"}
    /\ exitStatus \in {0, 1, 255}
    /\ i \in 1..(Len(repos) + 1)

(***************************************************************************)
(* Vocabulary of the properties.                                           *)
(***************************************************************************)
Last(s) == s[Len(s)]

Halted == ~ENABLED Next

NoFetchGiven == \E k \in 1..Len(argv) : argv[k] = NOFETCH

SpecGiven == SpecArg(argv) # None

\* the specification of the command line without its leading 'v's
GivenSpecStripped == lstrip_v(SpecArg(argv))

\* a specification is in force and does not parse
MalformedSpecGiven ==
    SpecGiven /\ GivenSpecStripped # <<>> /\ SpecMalformed(GivenSpecStripped)

\* a specification is in force and parses
WellFormedSpecGiven ==
    SpecGiven /\ GivenSpecStripped # <<>> /\ ~SpecMalformed(GivenSpecStripped)

IsSemver(t) == t # <<>> /\ PartialVersion(t).ok

\* the tags as the program looks at them
Candidates(ts) == [k \in 1..Len(ts) |-> lstrip_v(ts[k])]

HasSemverTag(ts) == \E k \in 1..Len(ts) : IsSemver(Candidates(ts)[k])

\* the candidates that parse and, under a well-formed specification sp,
\* match it, in the order of the listing
Retained(ts, sp) ==
    SelectSeq(Candidates(ts),
              LAMBDA t : IsSemver(t)
                         /\ (Truthy(sp) => SpecMatch(sp, PartialVersion(t))))

Elements(s) == {s[k] : k \in 1..Len(s)}

\* major.minor.patch as numbers, a missing component counting as 0
Triple(t) ==
    LET v == PartialVersion(t)
    IN  <<v.major, IF v.minor = -1 THEN 0 ELSE v.minor,
          IF v.patch = -1 THEN 0 ELSE v.patch>>

IsNumericMax(m, S) == \A t \in S : CmpTuple(Triple(t), Triple(m)) <= 0

\* the tag commands of the current repository returned and its tags were
\* processed to the end or to an abort
TagsProcessed == pc \in {"printed", "aborted"} /\ tags # <<>>

\* text is `<basename of line>: <a version or no match>`
IsResultLineFor(text, line) ==
    LET pre == basename(line) \o ColonSpace
    IN  /\ Len(text) > Len(pre)
        /\ SubSeq(text, 1, Len(pre)) = pre
        /\ \/ Tail_from(text, Len(pre) + 1) = NoMatchText
           \/ IsSemver(Tail_from(text, Len(pre) + 1))

\* the version field of the result line just printed
ReportedVersion ==
    Tail_from(Last(events).text, Len(basename(repos[i]) \o ColonSpace) + 1)

NoMatchLine(line) == Out(basename(line) \o ColonSpace \o NoMatchText)

\* what the lines of a repo-list file make a run without failure do, in
\* order: nothing for a blank line, a blank output line for a comment, and
\* for a path the fetch command (when fetching), the tag command and the
\* result line
SlotsOf(line, withFetch) ==
    IF IsBlank(line) THEN <<>>
    ELSE IF IsComment(line) THEN <<[kind |-> "comment", line |-> line]>>
    ELSE (IF withFetch THEN <<[kind |-> "fetch", line |-> line]>> ELSE <<>>)
         \o <<[kind |-> "tags", line |-> line], [kind |-> "result", line |-> line]>>

Slots(lines, withFetch) ==
    Concat([k \in 1..Len(lines) |-> SlotsOf(lines[k], withFetch)])

EventMatches(e, slot) ==
    CASE slot.kind = "comment" -> e = Out(<<>>)
      [] slot.kind = "fetch" -> e = Cmd(fetch_command(slot.line), 0)
      [] slot.kind = "tags" -> e = Cmd(tags_command(slot.line), 0)
      [] OTHER -> e.type = "out" /\ IsResultLineFor(e.text, slot.line)

EventsMatch(es, lines, withFetch) ==
    /\ Len(es) = Len(Slots(lines, withFetch))
    /\ \A k \in 1..Len(es) : EventMatches(es[k], Slots(lines, withFetch)[k])

\* the slots that are output lines
OutSlots(lines) ==
    SelectSeq(Slots(lines, FALSE), LAMBDA sl : sl.kind \in {"comment", "result"})

StdoutMatches(out, lines) ==
    /\ Len(out) = Len(OutSlots(lines))
    /\ \A k \in 1..Len(out) :
          IF OutSlots(lines)[k].kind = "comment" THEN out[k] = <<>>
          ELSE IsResultLineFor(out[k], OutSlots(lines)[k].line)

(***************************************************************************)
(* C1 (as stated): with no specification given, a repository whose tag     *)
(* list holds at least one tag that parses as a semantic version gets a    *)
(* result line, and the version on it is a maximum of those tags under     *)
(* numeric major.minor.patch ordering.                                     *)
(***************************************************************************)
C1_AlwaysReportsMax ==
    (~SpecGiven /\ TagsProcessed /\ HasSemverTag(tags))
    => /\ pc = "printed"
       /\ \E m \in Elements(Retained(tags, None)) :
             /\ IsNumericMax(m, Elements(Retained(tags, None)))
             /\ Last(events) = Out(basename(repos[i]) \o ColonSpace \o m)

(***************************************************************************)
(* C1 (amended): with no specification given, a repository whose tag list  *)
(* holds at least one tag that parses as a semantic version, and none that *)
(* parses but is rejected by the strict comparator, gets a result line     *)
(* whose version is a maximum of those tags under numeric                  *)
(* major.minor.patch ordering (10.0.0 above 2.0.0).                        *)
(***************************************************************************)
C1_LatestIsNumericMax ==
    (/\ ~SpecGiven
     /\ TagsProcessed
     /\ HasSemverTag(tags)
     /\ \A t \in Elements(Retained(tags, None)) : StrictVersion(t).ok)
    => /\ pc = "printed"
       /\ \E m \in Elements(Retained(tags, None)) :
             /\ IsNumericMax(m, Elements(Retained(tags, None)))
             /\ Last(events) = Out(basename(repos[i]) \o ColonSpace \o m)

\* tags 10.0.0 and 2.0.0 and no specification: 10.0.0 is reported
C1_Witness ==
    /\ pc = "printed"
    /\ ~SpecGiven
    /\ Tag_200 \in Elements(tags)
    /\ Tag_1000 \in Elements(tags)
    /\ ReportedVersion = Tag_1000

(***************************************************************************)
(* C2: when the run ends without a fatal error, standard output is the     *)
(* lines of the file in order, an empty line contributing nothing, a line  *)
(* starting with '#' one blank line, and any other line one line           *)
(* `<basename>: <version>` or `<basename>: no match`; every command        *)
(* spawned is a command of a line that is a path.                          *)
(***************************************************************************)
C2_OutputFollowsConfig ==
    pc = "done"
    => /\ StdoutMatches(Stdout, repos)
       /\ \A k \in 1..Len(Spawned) :
             \E j \in 1..Len(repos) :
                 /\ IsRepoPath(repos[j])
                 /\ Spawned[k] \in {fetch_command(repos[j]), tags_command(repos[j])}

\* a comment followed by a repository: a blank line, then the result line
C2_Witness ==
    /\ pc = "done"
    /\ repos = <<Line_comment, Line_rA>>
    /\ Len(Stdout) = 2
    /\ Stdout[1] = <<>>

(***************************************************************************)
(* C3: when a specification is given (and is not empty once its leading    *)
(* 'v's are removed), the version on every result line satisfies the       *)
(* range predicate of the stripped specification; otherwise the line       *)
(* reads no match.                                                         *)
(***************************************************************************)
C3_ReportedSatisfiesRange ==
    (SpecGiven /\ GivenSpecStripped # <<>> /\ pc = "printed")
    => \/ ReportedVersion = NoMatchText
       \/ /\ IsSemver(ReportedVersion)
          /\ ~SpecMalformed(GivenSpecStripped)
          /\ SpecMatch(GivenSpecStripped, PartialVersion(ReportedVersion))

\* under v<2.0.0 a repository with tags 10.0.0 and v1.0.0 reports 1.0.0
C3_Witness ==
    /\ pc = "printed"
    /\ SpecArg(argv) = Spec_lt2
    /\ Tag_1000 \in Elements(tags)
    /\ Tag_v100 \in Elements(tags)
    /\ ReportedVersion = lstrip_v(Tag_v100)

(***************************************************************************)
(* C4 (as stated): under a malformed specification no result line is ever  *)
(* printed: the run aborts at the first repository.                        *)
(***************************************************************************)
C4_AbortsAtFirstRepository ==
    MalformedSpecGiven => \A k \in 1..Len(Stdout) : Stdout[k] = <<>>

(***************************************************************************)
(* C4 (amended): a malformed specification is fatal at its first use, the  *)
(* first tag that parses as a semantic version: the repository holding     *)
(* that tag gets no result line, the run ends there with a non-zero        *)
(* status, and a repository with no such tag gets `<basename>: no match`.  *)
(***************************************************************************)
C4_AbortsAtFirstUse ==
    MalformedSpecGiven
    => /\ (TagsProcessed /\ HasSemverTag(tags))
          => /\ pc = "aborted"
             /\ exitStatus # 0
             /\ Last(events) = Cmd(tags_command(repos[i]), 0)
             /\ Halted
       /\ (TagsProcessed /\ ~HasSemverTag(tags))
          => /\ pc = "printed"
             /\ Last(events) = NoMatchLine(repos[i])

\* the first repository has no semantic tag and got its line, the second
\* one has one and the run aborted there
C4_Witness ==
    /\ MalformedSpecGiven
    /\ pc = "aborted"
    /\ error = "ValueError"
    /\ i = 2
    /\ Stdout = <<NoMatchLine(repos[1]).text>>

(***************************************************************************)
(* C5: when a retained tag of a repository is rejected by the strict       *)
(* comparator, the run ends there with a non-zero exit status; the last    *)
(* thing written is the diagnostic with the repository and the whole       *)
(* retained list, right after the tag command: no result line for that     *)
(* repository, and nothing after it.                                       *)
(***************************************************************************)
C5_StrictSortFailureIsFatal ==
    (/\ TagsProcessed
     /\ ~MalformedSpecGiven
     /\ \E t \in Elements(Retained(tags, spec)) : ~StrictVersion(t).ok)
    => /\ pc = "aborted"
       /\ exitStatus # 0
       /\ Last(events) = Out(InvalidPrefix \o repos[i] \o ColonSpace
                                \o ListRepr(Retained(tags, spec)))
       /\ events[Len(events) - 1] = Cmd(tags_command(repos[i]), 0)
       /\ Halted

\* the single retained tag is the partial version 1
C5_Witness ==
    /\ pc = "aborted"
    /\ error = "SystemExit"
    /\ Retained(tags, spec) = <<Tag_1>>
    /\ exitStatus = 255

(***************************************************************************)
(* C6: a command that ends with a non-zero status is the last thing the    *)
(* run does: the run has aborted with a non-zero status, the command is    *)
(* one of the current line, and what happened before is line for line      *)
(* what the lines before it make a run without failure do (after them,     *)
(* only the successful fetch of the current line when it is the tag        *)
(* command that failed).                                                   *)
(***************************************************************************)
C6_CommandFailureAborts ==
    \A k \in 1..Len(events) :
        (events[k].type = "cmd" /\ events[k].status # 0)
        => /\ k = Len(events)
           /\ pc = "aborted"
           /\ exitStatus # 0
           /\ Halted
           /\ IsRepoPath(repos[i])
           /\ StdoutMatches(Stdout, SubSeq(repos, 1, i - 1))
           /\ \/ /\ ~NoFetchGiven
                 /\ events[k].text = fetch_command(repos[i])
                 /\ EventsMatch(SubSeq(events, 1, k - 1), SubSeq(repos, 1, i - 1), TRUE)
              \/ /\ ~NoFetchGiven
                 /\ events[k].text = tags_command(repos[i])
                 /\ k > 1
                 /\ events[k - 1] = Cmd(fetch_command(repos[i]), 0)
                 /\ EventsMatch(SubSeq(events, 1, k - 2), SubSeq(repos, 1, i - 1), TRUE)
              \/ /\ NoFetchGiven
                 /\ events[k].text = tags_command(repos[i])
                 /\ EventsMatch(SubSeq(events, 1, k - 1), SubSeq(repos, 1, i - 1), FALSE)

\* the tag command of the second repository fails after the first one got
\* its line
C6_Witness ==
    /\ pc = "aborted"
    /\ error = "CalledProcessError"
    /\ i = 2
    /\ Len(Stdout) = 1
    /\ Last(events).text = tags_command(repos[2])
    /\ Last(events).status # 0

(***************************************************************************)
(* C7: on a run without fatal error the commands spawned are, line by      *)
(* line in file order, fetch then tag listing for each path when fetching, *)
(* the tag listing alone under --nofetch; the commands of a repository and *)
(* its result line come before any command of the next.                    *)
(***************************************************************************)
C7_CommandsFollowConfig ==
    pc = "done"
    => /\ EventsMatch(events, repos, ~NoFetchGiven)
       /\ Spawned = [k \in 1..Len(SelectSeq(Slots(repos, ~NoFetchGiven),
                                            LAMBDA sl : sl.kind \in {"fetch", "tags"})) |->
                        LET sl == SelectSeq(Slots(repos, ~NoFetchGiven),
                                            LAMBDA x : x.kind \in {"fetch", "tags"})[k]
                        IN  IF sl.kind = "fetch" THEN fetch_command(sl.line)
                            ELSE tags_command(sl.line)]

\* two repositories under --nofetch: two tag listings and no fetch
C7_Witness ==
    /\ pc = "done"
    /\ NoFetchGiven
    /\ repos = <<Line_rB, Line_rA>>
    /\ Spawned = <<tags_command(Line_rB), tags_command(Line_rA)>>

(***************************************************************************)
(* C8: when the repo-list file cannot be read, nothing is ever written     *)
(* and no command is ever spawned; the run aborts with a non-zero status   *)
(* when it opens the file.                                                 *)
(***************************************************************************)
C8_UnreadableFileAbortsFirst ==
    ~fileReadable
    => /\ events = <<>>
       /\ pc \in {"main", "open", "aborted"}
       /\ pc = "aborted" => (exitStatus # 0 /\ Halted)

\* the abort, with a malformed specification and fetching enabled
C8_Witness ==
    /\ ~fileReadable
    /\ pc = "aborted"
    /\ error = "OSError"
    /\ spec = Spec_bad
    /\ fetch

(***************************************************************************)
(* C9: a repository whose tag list is empty after filtering (no tag, no    *)
(* tag that parses, or none that matches the specification) gets the line  *)
(* `<basename>: no match`.                                                 *)
(***************************************************************************)
C9_EmptyListReadsNoMatch ==
    (/\ TagsProcessed
     /\ IF MalformedSpecGiven THEN ~HasSemverTag(tags)
        ELSE Retained(tags, spec) = <<>>)
    => /\ pc = "printed"
       /\ Last(events) = NoMatchLine(repos[i])

\* the only tag, 10.0.0, is outside <2.0.0
C9_Witness ==
    /\ pc = "printed"
    /\ WellFormedSpecGiven
    /\ tags = <<Tag_1000, <<>>>>
    /\ ReportedVersion = NoMatchText

\* t with one leading 'v' removed, if it has one
StripOne(t) == IF t # <<>> /\ Head(t) = "v" THEN Tail(t) ELSE t

=============================================================================
